---------------------------- MODULE Spec2Model ----------------------------
(***************************************************************************)
(* A model of file_renamer.py: the extension normaliser, the sequence key  *)
(* extractor, the collision resolver, the rename planner and the rename    *)
(* executor, together with the run() pipeline that drives them.            *)
(*                                                                         *)
(* Strings are sequences of one-character strings, so that lower(),        *)
(* startswith(), replace(), str(), int() and pathlib's stem/suffix are     *)
(* computed character by character as Python computes them.                *)
(***************************************************************************)
EXTENDS Naturals, Sequences, FiniteSets

VARIABLES
  fs,                 \* the filesystem: path |-> "file" or "dir"
  pattern,            \* FileRenamer.pattern
  rename_operations,  \* FileRenamer.rename_operations
  pc,                 \* position of run(), or of the single call of a pure function
  files,              \* run(): the local `files` of step 2
  all_items,          \* discover_files(): the iterdir() listing the plan was built from
  op_index,           \* execute_renames(): position of the for loop (1-based)
  successful_count,   \* execute_renames() local
  failed_count,       \* execute_renames() local
  skipped_count,      \* execute_renames() local
  error_messages,     \* execute_renames() local
  result,             \* run(): the local `result` of step 5, None before
  plan_fs,            \* history: the filesystem when the plan was generated
  exec_fs,            \* history: the filesystem when execute_renames was entered
  env_left,           \* how many more times another process may touch the folder
  fault_left,         \* how many more renames the operating system may refuse
  refused,            \* history: a rename was refused for an outside reason
  runs_left,          \* how many more times the pipeline may be started again
  arg,                \* the argument of the pure function under call
  ret                 \* its return value

vars == <<fs, pattern, rename_operations, pc, files, all_items, op_index,
          successful_count, failed_count, skipped_count, error_messages,
          result, plan_fs, exec_fs, env_left, fault_left, refused,
          runs_left, arg, ret>>

-----------------------------------------------------------------------------
(* Bounds of the model *)

\* largest number of entries in the folder when a run starts
MaxFiles == 3
\* how many times another process may add or delete a file during a run
MaxEnv == 1
\* how many renames the operating system may refuse during a run
MaxFaults == 1
\* how many times the pipeline is run again on the same folder
MaxReruns == 1
\* longest extension string handed to normalize_extension
MaxExtLen == 3
\* largest number of paths existing when handle_name_conflict is called
MaxExisting == 3

-----------------------------------------------------------------------------
(* Python strings *)

None == <<>>

UpperCase == <<"A","B","C","D","E","F","G","H","I","J","K","L","M",
               "N","O","P","Q","R","S","T","U","V","W","X","Y","Z">>
LowerCase == <<"a","b","c","d","e","f","g","h","i","j","k","l","m",
               "n","o","p","q","r","s","t","u","v","w","x","y","z">>
Digits == <<"0","1","2","3","4","5","6","7","8","9">>

IsUpper(c) == \E k \in 1..Len(UpperCase) : UpperCase[k] = c
IsDigit(c) == \E k \in 1..Len(Digits) : Digits[k] = c
DigitValue(c) == (CHOOSE k \in 1..Len(Digits) : Digits[k] = c) - 1

\* str.lower() on one character
lower_char(c) ==
  IF IsUpper(c) THEN LowerCase[CHOOSE k \in 1..Len(UpperCase) : UpperCase[k] = c]
  ELSE c

\* str.lower()
lower(s) == [k \in 1..Len(s) |-> lower_char(s[k])]

\* str.startswith(prefix)
startswith(s, prefix) ==
  /\ Len(s) >= Len(prefix)
  /\ SubSeq(s, 1, Len(prefix)) = prefix

\* str(n) for a natural number
RECURSIVE str(_)
str(n) ==
  IF n < 10 THEN <<Digits[n + 1]>>
  ELSE str(n \div 10) \o <<Digits[(n % 10) + 1]>>

\* int(s) for a string of decimal digits
RECURSIVE int(_)
int(s) ==
  IF s = <<>> THEN 0
  ELSE int(SubSeq(s, 1, Len(s) - 1)) * 10 + DigitValue(s[Len(s)])

\* str.replace(old, new): every non-overlapping occurrence, left to right
RECURSIVE replace(_, _, _)
replace(s, old, new) ==
  IF s = <<>> THEN <<>>
  ELSE IF startswith(s, old)
       THEN new \o replace(SubSeq(s, Len(old) + 1, Len(s)), old, new)
       ELSE <<s[1]>> \o replace(Tail(s), old, new)

-----------------------------------------------------------------------------
(* pathlib *)

\* the folder the FileRenamer was constructed with
folder_path == "photos"

\* parent / name
Join(parent, name) == [parent |-> parent, name |-> name]

\* str.rfind('.') as a 1-based position, 0 when there is no dot
rfind_dot(name) ==
  LET dots == {k \in 1..Len(name) : name[k] = "."}
  IN  IF dots = {} THEN 0 ELSE CHOOSE k \in dots : \A j \in dots : j <= k

\* PurePath.suffix: the last dot-separated part, when the dot is neither the
\* first nor the last character of the name
suffix(name) ==
  LET k == rfind_dot(name)
  IN  IF 1 < k /\ k < Len(name) THEN SubSeq(name, k, Len(name)) ELSE <<>>

\* PurePath.stem: the name without its suffix
stem(name) ==
  LET k == rfind_dot(name)
  IN  IF 1 < k /\ k < Len(name) THEN SubSeq(name, 1, k - 1) ELSE name

\* Path.exists()
exists(path) == path \in DOMAIN fs

\* Path.is_file()
is_file(path) == path \in DOMAIN fs /\ fs[path] = "file"

-----------------------------------------------------------------------------
(* The pure functions of file_renamer.py *)

\* a plausible slip: the dot is prepended unconditionally
normalize_extension_always_dot(ext) == lower(<<".">> \o ext)

normalize_extension(ext) ==
  LET dotted == IF ~startswith(ext, <<".">>) THEN <<".">> \o ext ELSE ext
  IN  lower(dotted)

\* re.findall(r'\d+', filename)[0], or the empty string when nothing matches
first_number(filename) ==
  LET at == {k \in 1..Len(filename) : IsDigit(filename[k])}
  IN  IF at = {} THEN <<>>
      ELSE LET a == CHOOSE k \in at : \A j \in at : k <= j
               b == CHOOSE k \in a..Len(filename) :
                      /\ \A j \in a..k : IsDigit(filename[j])
                      /\ (k = Len(filename) \/ ~IsDigit(filename[k + 1]))
           IN  SubSeq(filename, a, b)

extract_numeric_order(filename) ==
  LET numbers == first_number(filename)
  IN  IF numbers # <<>> THEN int(numbers) ELSE 0


\* the `while True` loop of handle_name_conflict, entered with counter = 1
RECURSIVE conflict_loop(_, _, _, _)
conflict_loop(stem_, suffix_, parent, counter) ==
  LET new_name == stem_ \o <<"_">> \o str(counter) \o suffix_
      new_path == Join(parent, new_name)
  IN  IF ~exists(new_path) THEN new_path
      ELSE conflict_loop(stem_, suffix_, parent, counter + 1)

\* a plausible slip: the existence check is left out
handle_name_conflict_unchecked(target_path) == target_path

\* a plausible slip: the counter starts at 2
handle_name_conflict_from_two(target_path) ==
  IF ~exists(target_path) THEN target_path
  ELSE conflict_loop(stem(target_path.name), suffix(target_path.name),
                     target_path.parent, 2)

handle_name_conflict(target_path) ==
  IF ~exists(target_path) THEN target_path
  ELSE conflict_loop(stem(target_path.name), suffix(target_path.name),
                     target_path.parent, 1)

-----------------------------------------------------------------------------
(* The data classes *)

RenameOperation(source, target, status, error) ==
  [source |-> source, target |-> target, status |-> status, error |-> error]

RenameResult(total_files, successful, failed, skipped, errors) ==
  [total_files |-> total_files, successful |-> successful, failed |-> failed,
   skipped |-> skipped, errors |-> errors]

-----------------------------------------------------------------------------
(* FileRenamer.discover_files *)

\* every order in which the entries of a set can be listed
RECURSIVE Orderings(_)
Orderings(S) ==
  IF S = {} THEN {<<>>}
  ELSE UNION {{<<x>> \o t : t \in Orderings(S \ {x})} : x \in S}

\* Path.iterdir(): the entries directly inside the folder, in arbitrary order
iterdir(dir) == Orderings({p \in DOMAIN fs : p.parent = dir})

\* the sort key of discover_files
sort_key(f) == extract_numeric_order(f.name)

\* a plausible slip: an element is placed before the elements of equal key
insert_by_key_unstable(sorted, x) ==
  LET before == Cardinality({k \in 1..Len(sorted) : sort_key(sorted[k]) < sort_key(x)})
  IN  SubSeq(sorted, 1, before) \o <<x>> \o SubSeq(sorted, before + 1, Len(sorted))

\* list.sort(key=...) is stable: an element goes after the elements whose key
\* is smaller or equal
insert_by_key(sorted, x) ==
  LET before == Cardinality({k \in 1..Len(sorted) : sort_key(sorted[k]) <= sort_key(x)})
  IN  SubSeq(sorted, 1, before) \o <<x>> \o SubSeq(sorted, before + 1, Len(sorted))

RECURSIVE sort_by_key(_)
sort_by_key(s) ==
  IF s = <<>> THEN <<>>
  ELSE insert_by_key(sort_by_key(SubSeq(s, 1, Len(s) - 1)), s[Len(s)])

\* discover_files, given the listing iterdir() returned
discover_files(listing) == sort_by_key(SelectSeq(listing, is_file))

-----------------------------------------------------------------------------
(* FileRenamer.generate_rename_plan *)

token_n == <<"{", "n", "}">>

\* a plausible slip: the extension is appended as it is
new_name_for_raw_extension(index, file_path) ==
  replace(pattern, token_n, str(index)) \o suffix(file_path.name)

\* the candidate name of the file at 1-based position index
new_name_for(index, file_path) ==
  replace(pattern, token_n, str(index)) \o normalize_extension(suffix(file_path.name))

\* the loop body: the operation planned for the file at position index
plan_operation(index, file_path) ==
  RenameOperation(file_path,
                  handle_name_conflict(Join(folder_path, new_name_for(index, file_path))),
                  "pending", None)

\* a plausible slip: the plan is built from the files run() found in step 2
generate_rename_plan_from_step_2(listing) ==
  [k \in 1..Len(files) |-> plan_operation(k, files[k])]

\* generate_rename_plan, given the listing its discover_files call obtained
generate_rename_plan(listing) ==
  LET fl == discover_files(listing)
  IN  [k \in 1..Len(fl) |-> plan_operation(k, fl[k])]


-----------------------------------------------------------------------------
(* FileRenamer.execute_renames *)

\* the f-strings of the error messages, as the pieces they are joined from
msg_not_found(op) == <<"Source file not found: ", op.source.name>>
msg_permission(op, e) == <<"Permission denied for ", op.source.name, ": ", e>>
msg_os_error(op, e) == <<"Failed to rename ", op.source.name, ": ", e>>
msg_unexpected(op, e) == <<"Unexpected error renaming ", op.source.name, ": ", e>>

\* exceptions of the OSError family other than PermissionError
OSErrors == {"OSError", "FileExistsError", "IsADirectoryError"}

\* what Path.rename(target) can do when it is not refused for an outside
\* reason: on POSIX an existing file is replaced silently, on Windows
\* FileExistsError is raised; a directory in the way is an error everywhere
rename_outcomes(source, target) ==
  IF ~exists(target) THEN {"renamed"}
  ELSE IF fs[target] = "dir" THEN {"IsADirectoryError"}
  ELSE {"renamed", "FileExistsError"}

\* refusals that do not depend on the folder's content
InjectedFaults == {"PermissionError", "OSError", "ValueError"}

\* the filesystem after source has been renamed to target
renamed_fs(source, target) ==
  [p \in (DOMAIN fs \ {source}) \cup {target} |->
     IF p = target THEN fs[source] ELSE fs[p]]

\* the operation at op_index gets its final status and error
set_status(status, error) ==
  rename_operations' =
    [rename_operations EXCEPT ![op_index] =
       RenameOperation(@.source, @.target, status, error)]

\* a plausible slip: the failure is recorded on the operation only
record_failure_uncounted(error_msg) ==
  /\ set_status("failed", error_msg)
  /\ UNCHANGED <<error_messages, failed_count, successful_count, skipped_count, fs>>

\* the four statements every failing branch performs
record_failure(error_msg) ==
  /\ set_status("failed", error_msg)
  /\ error_messages' = Append(error_messages, error_msg)
  /\ failed_count' = failed_count + 1
  /\ UNCHANGED <<successful_count, skipped_count, fs>>

\* a plausible slip: a missing source ends the loop
loop_advance_break_on_failure ==
  op_index' = IF rename_operations'[op_index].status = "failed"
              THEN Len(rename_operations) + 1
              ELSE op_index + 1

\* the for loop moves on to the next operation, whatever happened to this one
loop_advance == op_index' = op_index + 1

\* one iteration of the for loop, with the outcome of Path.rename when it is called
execute_one(outcome) ==
  LET operation == rename_operations[op_index]
  IN  IF ~exists(operation.source)
      THEN record_failure(msg_not_found(operation))
      ELSE IF operation.source = operation.target
      THEN /\ set_status("skipped", operation.error)
           /\ skipped_count' = skipped_count + 1
           /\ UNCHANGED <<successful_count, failed_count, error_messages, fs>>
      ELSE IF outcome = "renamed"
      THEN /\ fs' = renamed_fs(operation.source, operation.target)
           /\ set_status("success", operation.error)
           /\ successful_count' = successful_count + 1
           /\ UNCHANGED <<failed_count, skipped_count, error_messages>>
      ELSE IF outcome = "PermissionError"
      THEN record_failure(msg_permission(operation, outcome))
      ELSE IF outcome \in OSErrors
      THEN record_failure(msg_os_error(operation, outcome))
      ELSE record_failure(msg_unexpected(operation, outcome))


-----------------------------------------------------------------------------
(* The folders and patterns the runs start from *)

\* regular files the folder may hold at the start
InitialFiles ==
  { <<"1",".","P","N","G">>,              \* 1.PNG
    <<"2",".","P","N","G">>,              \* 2.PNG
    <<"1","0",".","p","n","g">>,          \* 10.png
    <<"a",".","t","x","t">>,              \* a.txt
    <<"b",".","t","x","t">>,              \* b.txt
    <<"p","1",".","p","n","g">>,          \* p1.png
    <<"p","1","_","1",".","p","n","g">> } \* p1_1.png

\* subdirectories the folder may hold at the start
InitialDirs ==
  { <<"p","2",".","p","n","g">> }         \* p2.png, a directory

\* files another process may create while the run is in progress
EnvFiles ==
  { <<"p","1",".","p","n","g">> }         \* p1.png

\* the naming patterns: with the token {n}, and without it
Patterns ==
  { <<"p","{","n","}">>,                  \* p{n}
    <<"p">> }                             \* p

\* the folder holding the regular files F and the subdirectories D
folder_of(F, D) ==
  [p \in {Join(folder_path, n) : n \in F \cup D} |->
     IF p.name \in F THEN "file" ELSE "dir"]

InitialFolders ==
  { folder_of(F, D) : F \in SUBSET InitialFiles, D \in SUBSET InitialDirs }

\* the state right after FileRenamer(folder, pattern) was constructed
Constructed ==
  /\ rename_operations = <<>>
  /\ pc = "discover"
  /\ files = <<>>
  /\ all_items = <<>>
  /\ op_index = 0
  /\ successful_count = 0
  /\ failed_count = 0
  /\ skipped_count = 0
  /\ error_messages = <<>>
  /\ result = None
  /\ plan_fs = fs
  /\ exec_fs = fs
  /\ refused = FALSE
  /\ arg = None
  /\ ret = None

Init ==
  /\ fs \in {f \in InitialFolders : Cardinality(DOMAIN f) <= MaxFiles}
  /\ pattern \in Patterns
  /\ Constructed
  /\ env_left = MaxEnv
  /\ fault_left = MaxFaults
  /\ runs_left = 0

-----------------------------------------------------------------------------
(* FileRenamer.run, step by step; the folder is taken to exist (step 1) *)

loop_vars == <<op_index, successful_count, failed_count, skipped_count, error_messages>>
fixed_vars == <<pattern, arg, ret>>

\* step 2: files = self.discover_files(); an empty folder ends the run
RunDiscover ==
  /\ pc = "discover"
  /\ \E listing \in iterdir(folder_path) : files' = discover_files(listing)
  /\ pc' = IF files' = <<>> THEN "done" ELSE "plan"
  /\ UNCHANGED <<fs, rename_operations, all_items, loop_vars, result, plan_fs,
                 exec_fs, env_left, fault_left, refused, runs_left, fixed_vars>>

\* step 3: operations = self.generate_rename_plan(), which lists the folder itself
RunPlan ==
  /\ pc = "plan"
  /\ \E listing \in iterdir(folder_path) :
       /\ all_items' = listing
       /\ rename_operations' = generate_rename_plan(listing)
  /\ plan_fs' = fs
  /\ exec_fs' = fs
  /\ pc' = "preview"
  /\ UNCHANGED <<fs, files, loop_vars, result, env_left, fault_left, refused,
                 runs_left, fixed_vars>>

\* step 4: self.preview_changes() prints the plan and changes nothing
RunPreview ==
  /\ pc = "preview"
  /\ pc' = "execute"
  /\ all_items' = <<>>
  /\ UNCHANGED <<fs, rename_operations, files, loop_vars, result, plan_fs, exec_fs,
                 env_left, fault_left, refused, runs_left, fixed_vars>>

\* step 5, entry of execute_renames: the early return and the loop's locals
ExecuteStart ==
  /\ pc = "execute"
  /\ IF rename_operations = <<>>
     THEN /\ result' = <<RenameResult(0, 0, 0, 0, <<>>)>>
          /\ pc' = "done"
          /\ UNCHANGED loop_vars
     ELSE /\ successful_count' = 0
          /\ failed_count' = 0
          /\ skipped_count' = 0
          /\ error_messages' = <<>>
          /\ op_index' = 1
          /\ pc' = "loop"
          /\ UNCHANGED result
  /\ exec_fs' = fs
  /\ UNCHANGED <<fs, rename_operations, files, all_items, plan_fs, env_left,
                 fault_left, refused, runs_left, fixed_vars>>

\* one iteration of the for loop of execute_renames
ExecuteStep ==
  /\ pc = "loop"
  /\ op_index <= Len(rename_operations)
  /\ LET operation == rename_operations[op_index]
         calls_rename == exists(operation.source) /\ operation.source # operation.target
     IN  \/ /\ \E outcome \in (IF calls_rename
                               THEN rename_outcomes(operation.source, operation.target)
                               ELSE {"not called"}) :
                  execute_one(outcome)
            /\ UNCHANGED <<fault_left, refused>>
         \/ /\ calls_rename
            /\ fault_left > 0
            /\ \E outcome \in InjectedFaults : execute_one(outcome)
            /\ fault_left' = fault_left - 1
            /\ refused' = TRUE
  /\ loop_advance
  /\ UNCHANGED <<pc, files, all_items, result, plan_fs, exec_fs, env_left, runs_left,
                 fixed_vars>>

\* the RenameResult built after the loop
final_result ==
  RenameResult(Len(rename_operations), successful_count, failed_count,
               skipped_count, error_messages)

\* the end of execute_renames: the result is returned to run()
ExecuteFinish ==
  /\ pc = "loop"
  /\ op_index > Len(rename_operations)
  /\ result' = <<final_result>>
  /\ pc' = "done"
  /\ UNCHANGED <<fs, rename_operations, files, all_items, loop_vars, plan_fs,
                 exec_fs, env_left, fault_left, refused, runs_left, fixed_vars>>

-----------------------------------------------------------------------------
(* Other processes working in the same folder while run() is in progress *)

\* the two windows in which the folder is looked at again later: between the
\* listing of step 2 and the planning, and between the planning and the renames
BetweenSteps == pc \in {"plan", "execute"}

EnvDelete ==
  /\ BetweenSteps
  /\ env_left > 0
  /\ \E p \in DOMAIN fs :
       /\ fs[p] = "file"
       /\ fs' = [q \in DOMAIN fs \ {p} |-> fs[q]]
  /\ env_left' = env_left - 1
  /\ UNCHANGED <<rename_operations, pc, files, all_items, loop_vars, result,
                 plan_fs, exec_fs, fault_left, refused, runs_left, fixed_vars>>

EnvCreate ==
  /\ BetweenSteps
  /\ env_left > 0
  /\ \E n \in EnvFiles :
       /\ ~exists(Join(folder_path, n))
       /\ fs' = [q \in DOMAIN fs \cup {Join(folder_path, n)} |->
                   IF q \in DOMAIN fs THEN fs[q] ELSE "file"]
  /\ env_left' = env_left - 1
  /\ UNCHANGED <<rename_operations, pc, files, all_items, loop_vars, result,
                 plan_fs, exec_fs, fault_left, refused, runs_left, fixed_vars>>

Next ==
  \/ RunDiscover
  \/ RunPlan
  \/ RunPreview
  \/ ExecuteStart
  \/ ExecuteStep
  \/ ExecuteFinish
  \/ EnvDelete
  \/ EnvCreate

Spec == Init /\ [][Next]_vars


-----------------------------------------------------------------------------
(* The pipeline run again on the folder the previous run left behind *)

\* a new FileRenamer(folder, pattern) is constructed and run() is called
Rerun ==
  /\ pc = "done"
  /\ runs_left > 0
  /\ runs_left' = runs_left - 1
  /\ rename_operations' = <<>>
  /\ pc' = "discover"
  /\ files' = <<>>
  /\ all_items' = <<>>
  /\ op_index' = 0
  /\ successful_count' = 0
  /\ failed_count' = 0
  /\ skipped_count' = 0
  /\ error_messages' = <<>>
  /\ result' = None
  /\ plan_fs' = fs
  /\ exec_fs' = fs
  /\ UNCHANGED <<fs, pattern, env_left, fault_left, refused, arg, ret>>

\* successive runs on a folder nothing else touches and where no rename is refused
InitRerun ==
  /\ fs \in {f \in InitialFolders : Cardinality(DOMAIN f) <= MaxFiles}
  /\ pattern \in Patterns
  /\ Constructed
  /\ env_left = 0
  /\ fault_left = 0
  /\ runs_left = MaxReruns

NextRerun ==
  \/ RunDiscover
  \/ RunPlan
  \/ RunPreview
  \/ ExecuteStart
  \/ ExecuteStep
  \/ ExecuteFinish
  \/ Rerun

SpecRerun == InitRerun /\ [][NextRerun]_vars

-----------------------------------------------------------------------------
(* normalize_extension called on its own *)

ExtChars == {".", "p", "P", "g", "G"}

RECURSIVE StringsUpTo(_, _)
StringsUpTo(chars, n) ==
  IF n = 0 THEN {<<>>}
  ELSE LET shorter == StringsUpTo(chars, n - 1)
       IN  shorter \cup {<<c>> \o t : c \in chars, t \in {u \in shorter : Len(u) = n - 1}}

ExtInputs == StringsUpTo(ExtChars, MaxExtLen)

\* the variables of the pipeline, which a call of a pure function leaves alone
PipelineIdle ==
  /\ pattern = <<>>
  /\ rename_operations = <<>>
  /\ files = <<>>
  /\ all_items = <<>>
  /\ op_index = 0
  /\ successful_count = 0
  /\ failed_count = 0
  /\ skipped_count = 0
  /\ error_messages = <<>>
  /\ result = None
  /\ plan_fs = fs
  /\ exec_fs = fs
  /\ env_left = 0
  /\ fault_left = 0
  /\ refused = FALSE
  /\ runs_left = 0

InitNormalize ==
  /\ fs = folder_of({}, {})
  /\ arg \in ExtInputs
  /\ ret = None
  /\ pc = "call"
  /\ PipelineIdle

NormalizeCall ==
  /\ pc = "call"
  /\ ret' = normalize_extension(arg)
  /\ pc' = "returned"
  /\ UNCHANGED <<fs, pattern, rename_operations, files, all_items, loop_vars,
                 result, plan_fs, exec_fs, env_left, fault_left, refused,
                 runs_left, arg>>

SpecNormalize == InitNormalize /\ [][NormalizeCall]_vars

-----------------------------------------------------------------------------
(* handle_name_conflict called on its own *)

\* the desired target paths
DesiredPaths ==
  { Join("photos", <<"p","1",".","p","n","g">>),       \* photos/p1.png
    Join("photos", <<"p","1">>),                       \* photos/p1
    Join("photos", <<".","p">>),                       \* photos/.p
    Join("photos", <<"a",".","b",".","c">>) }          \* photos/a.b.c

\* the paths that may exist when the function is called: the desired paths,
\* their suffixed forms, and suffixed forms in another directory
ConflictPaths ==
  DesiredPaths
  \cup { Join(d.parent, stem(d.name) \o <<"_">> \o str(k) \o suffix(d.name)) :
           d \in DesiredPaths, k \in 1..MaxExisting }
  \cup { Join("other", <<"p","1","_","1",".","p","n","g">>),
         Join("photos", <<"p","1",".","p","n","g","_","1">>) }

InitConflict ==
  /\ \E E \in SUBSET ConflictPaths :
       /\ Cardinality(E) <= MaxExisting
       /\ fs = [p \in E |-> IF p.parent = "other" THEN "dir" ELSE "file"]
  /\ arg \in DesiredPaths
  /\ ret = None
  /\ pc = "call"
  /\ PipelineIdle

ConflictCall ==
  /\ pc = "call"
  /\ ret' = handle_name_conflict(arg)
  /\ pc' = "returned"
  /\ UNCHANGED <<fs, pattern, rename_operations, files, all_items, loop_vars,
                 result, plan_fs, exec_fs, env_left, fault_left, refused,
                 runs_left, arg>>

SpecConflict == InitConflict /\ [][ConflictCall]_vars


-----------------------------------------------------------------------------
(* Vocabulary of the properties *)

Range(seq) == {seq[k] : k \in 1..Len(seq)}

\* the pattern contains the token {n}
HasToken(pat) ==
  \E k \in 1..Len(pat) : k + 2 <= Len(pat) /\ SubSeq(pat, k, k + 2) = token_n

\* the regular files of a filesystem
RegularFiles(f) == {p \in DOMAIN f : f[p] = "file"}

\* the source and the target of the k-th operation of the plan
Source(k) == rename_operations[k].source
Target(k) == rename_operations[k].target

Operations == 1..Len(rename_operations)
Sources == {rename_operations[k].source : k \in Operations}
Targets == {rename_operations[k].target : k \in Operations}

\* a plan has been generated by this run
Planned == pc \in {"preview", "execute", "loop"} \/ (pc = "done" /\ result # None)

\* execute_renames has returned to run()
Executed == pc = "done" /\ result # None

\* how many operations have the given status
Tally(status) ==
  Cardinality({k \in Operations : rename_operations[k].status = status})

\* c and d are the same letter in either case, or the same character
SameUpToCase(c, d) ==
  \/ c = d
  \/ \E k \in 1..Len(UpperCase) : {c, d} = {UpperCase[k], LowerCase[k]}

\* a and b differ at most by letter case
DifferByCase(a, b) ==
  /\ Len(a) = Len(b)
  /\ \A k \in 1..Len(a) : SameUpToCase(a[k], b[k])

\* a and b differ at most by letter case and by one leading dot
DifferByCaseOrLeadingDot(a, b) ==
  \/ DifferByCase(a, b)
  \/ DifferByCase(<<".">> \o a, b)
  \/ DifferByCase(a, <<".">> \o b)

StartsWithExactlyOneDot(s) ==
  /\ Len(s) >= 1
  /\ s[1] = "."
  /\ (Len(s) >= 2 => s[2] # ".")

StartsWithTwoDots(s) == Len(s) >= 2 /\ s[1] = "." /\ s[2] = "."

NoUpperCase(s) == \A k \in 1..Len(s) : ~IsUpper(s[k])

\* the inputs normalize_extension is compared on: one character longer than
\* the argument may be, so that the argument with a dot prepended is among them
ExtComparands == StringsUpTo(ExtChars, MaxExtLen + 1)

-----------------------------------------------------------------------------
(* C8: normalize_extension *)

\* C8 as stated: for every input the output starts with exactly one dot and has
\* no uppercase letter, and inputs that differ only by letter case or by one
\* leading dot give the same output.
C8_EveryInput ==
  pc = "returned" =>
    /\ StartsWithExactlyOneDot(ret)
    /\ NoUpperCase(ret)
    /\ \A other \in ExtComparands :
         DifferByCaseOrLeadingDot(arg, other) => normalize_extension(other) = ret

\* C8 amended: the same, for the inputs that do not begin with two dots.
C8_InputsWithoutTwoLeadingDots ==
  (pc = "returned" /\ ~StartsWithTwoDots(arg)) =>
    /\ StartsWithExactlyOneDot(ret)
    /\ NoUpperCase(ret)
    /\ \A other \in ExtComparands :
         (~StartsWithTwoDots(other) /\ DifferByCaseOrLeadingDot(arg, other))
           => normalize_extension(other) = ret

\* normalize_extension("PG") has returned ".pg"
C8_Witness ==
  /\ pc = "returned"
  /\ arg = <<"P", "G">>
  /\ ret = <<".", "p", "g">>

-----------------------------------------------------------------------------
(* C5: handle_name_conflict *)

\* the path with _k put between stem and extension
Suffixed(path, k) ==
  Join(path.parent, stem(path.name) \o <<"_">> \o str(k) \o suffix(path.name))

\* C5: the desired path is returned unchanged when it does not exist; otherwise
\* the result is stem_k + extension in the same parent directory for the
\* smallest k >= 1 whose path does not exist; the result never exists.
C5_SmallestFreeSuffix ==
  pc = "returned" =>
    /\ ret \notin DOMAIN fs
    /\ ret.parent = arg.parent
    /\ arg \notin DOMAIN fs => ret = arg
    /\ arg \in DOMAIN fs =>
         \E k \in 1..Cardinality(DOMAIN fs) :
           /\ ret = Suffixed(arg, k)
           /\ \A j \in 1..(k - 1) : Suffixed(arg, j) \in DOMAIN fs

\* p1.png and p1_1.png exist, and p1_2.png was returned for p1.png
C5_Witness ==
  /\ pc = "returned"
  /\ arg = Join("photos", <<"p","1",".","p","n","g">>)
  /\ arg \in DOMAIN fs
  /\ Join("photos", <<"p","1","_","1",".","p","n","g">>) \in DOMAIN fs
  /\ ret = Join("photos", <<"p","1","_","2",".","p","n","g">>)


-----------------------------------------------------------------------------
(* C7: the order of discover_files and of the plan *)

\* the regular files of the listing the plan was built from, in listing order
ListedFiles == SelectSeq(all_items, LAMBDA p : p \in RegularFiles(plan_fs))

\* the position of a path in the listing
ListingPosition(p) == CHOOSE k \in 1..Len(all_items) : all_items[k] = p

\* C7: the sources of the plan are a permutation of the regular files of the
\* listing, in non-decreasing order of the first number of the name (0 when
\* there is none), numeric and not lexicographic; files of equal key keep their
\* listing order; the k-th operation is numbered k.
C7_StableNumericOrder ==
  pc = "preview" =>
    /\ Len(rename_operations) = Len(ListedFiles)
    /\ Sources = Range(ListedFiles)
    /\ \A i, j \in Operations :
         i < j =>
           /\ extract_numeric_order(Source(i).name)
                <= extract_numeric_order(Source(j).name)
           /\ extract_numeric_order(Source(i).name)
                = extract_numeric_order(Source(j).name)
                => ListingPosition(Source(i)) < ListingPosition(Source(j))
           /\ ~(/\ Source(i).name = <<"1","0",".","p","n","g">>
                /\ Source(j).name = <<"2",".","P","N","G">>)
    /\ HasToken(pattern) =>
         \A k \in Operations : extract_numeric_order(Target(k).name) = k

\* the listing gave b.txt, 10.png, 2.PNG, a.txt in an order that the sort
\* changes: 10.png was listed first and is planned last, after two files of
\* equal key that keep their listing order
C7_Witness ==
  /\ pc = "preview"
  /\ Len(rename_operations) = 3
  /\ all_items[1].name = <<"1","0",".","p","n","g">>
  /\ Source(3).name = <<"1","0",".","p","n","g">>
  /\ extract_numeric_order(Source(1).name) = extract_numeric_order(Source(2).name)
  /\ Source(1).name = <<"b",".","t","x","t">>
  /\ HasToken(pattern)

-----------------------------------------------------------------------------
(* C3: the accounting of execute_renames *)

\* the errors of the failed operations, in the order of the plan
FailedErrors ==
  LET failed == SelectSeq(rename_operations, LAMBDA op : op.status = "failed")
  IN  [k \in 1..Len(failed) |-> failed[k].error]

\* C3: the result's counts are the numbers of operations with each final
\* status, errors holds the error of each failed operation in order, and
\* total_files = successful + failed + skipped.
C3_ResultMatchesTally ==
  Executed =>
    LET r == result[1]
    IN  /\ r.successful = Tally("success")
        /\ r.failed = Tally("failed")
        /\ r.skipped = Tally("skipped")
        /\ r.errors = FailedErrors
        /\ Len(r.errors) = r.failed
        /\ r.total_files = r.successful + r.failed + r.skipped
        /\ r.total_files = Len(rename_operations)

\* a run in which one rename succeeded and two operations failed for
\* different reasons
C3_Witness ==
  /\ Executed
  /\ result[1].successful >= 1
  /\ result[1].failed = 2
  /\ result[1].errors[1][1] # result[1].errors[2][1]

-----------------------------------------------------------------------------
(* C4: a failing operation does not abort the plan *)

\* the operations whose source was gone when execute_renames was entered
Vanished == {k \in Operations : Source(k) \notin DOMAIN exec_fs}

TargetsDistinct ==
  \A i, j \in Operations : i # j => Target(i) # Target(j)

\* C4: a failed operation carries a non-empty error naming its file; the loop
\* handles the operations in list order, whatever failed before, so that none
\* is left pending at the end; an operation whose source vanished after the
\* planning fails with the not-found error, and it alone: when nothing else
\* interferes, the others are renamed as planned.
C4_FailureDoesNotAbort ==
  /\ \A k \in Operations :
       rename_operations[k].status = "failed" =>
         /\ rename_operations[k].error # None
         /\ rename_operations[k].error[2] = Source(k).name
  /\ pc = "loop" =>
       \A k \in Operations :
         (rename_operations[k].status = "pending") <=> (k >= op_index)
  /\ Executed => \A k \in Operations :
                   rename_operations[k].status # "pending"
  /\ (/\ Executed
      /\ ~refused
      /\ TargetsDistinct
      /\ \A k \in Operations : Target(k) \notin DOMAIN exec_fs) =>
       \A k \in Operations :
         IF k \in Vanished
         THEN /\ rename_operations[k].status = "failed"
              /\ rename_operations[k].error
                   = <<"Source file not found: ", Source(k).name>>
         ELSE /\ rename_operations[k].status = "success"
              /\ rename_operations[k].error = None
              /\ Target(k) \in DOMAIN fs
              /\ Source(k) \notin DOMAIN fs

\* the source of the first of three operations was deleted after the
\* planning; it failed, and the two after it were renamed
C4_Witness ==
  /\ Executed
  /\ ~refused
  /\ Len(rename_operations) = 3
  /\ Vanished = {1}
  /\ rename_operations[1].status = "failed"
  /\ rename_operations[2].status = "success"
  /\ rename_operations[3].status = "success"


-----------------------------------------------------------------------------
(* C6: the end-to-end run on a folder without name collisions *)

\* the pattern p{n} with {n} replaced by k, plus the lowercased extension
CandidatePath(k) ==
  Join(folder_path, <<"p">> \o str(k) \o lower(suffix(Source(k).name)))

\* nothing but the run itself touched the folder, and no rename was refused
Undisturbed == exec_fs = plan_fs /\ ~refused

\* the folder held only regular files when the plan was made, and none of the
\* candidate names existed
NoCollision ==
  /\ RegularFiles(plan_fs) = DOMAIN plan_fs
  /\ \A k \in Operations : CandidatePath(k) \notin DOMAIN plan_fs

\* C6: in a folder of regular files where no candidate name exists, with the
\* pattern p{n} and nothing interfering, the file at sorted position k is
\* renamed to p<k> plus its lowercased extension, every operation succeeds
\* and the folder holds exactly the planned targets afterwards.
C6_EndToEnd ==
  ((pc = "preview" \/ (Executed /\ Undisturbed))
     /\ pattern = <<"p","{","n","}">> /\ NoCollision) =>
    /\ \A k \in Operations : Target(k) = CandidatePath(k)
    /\ Sources = DOMAIN plan_fs
    /\ \A i, j \in Operations :
         i < j => sort_key(Source(i)) <= sort_key(Source(j))
    /\ (Executed /\ Undisturbed) =>
         /\ result[1] = RenameResult(Cardinality(DOMAIN plan_fs),
                                     Cardinality(DOMAIN plan_fs), 0, 0, <<>>)
         /\ DOMAIN fs = Targets
         /\ \A k \in Operations : fs[Target(k)] = "file"

\* 2.PNG and 10.png were renamed to p1.png and p2.png
C6_Witness ==
  /\ Executed
  /\ Undisturbed
  /\ pattern = <<"p","{","n","}">>
  /\ Len(rename_operations) = 2
  /\ Source(1).name = <<"2",".","P","N","G">>
  /\ Source(2).name = <<"1","0",".","p","n","g">>
  /\ DOMAIN fs = { Join(folder_path, <<"p","1",".","p","n","g">>),
                   Join(folder_path, <<"p","2",".","p","n","g">>) }
  /\ result[1].successful = 2

-----------------------------------------------------------------------------
(* C10: with {n} in the pattern, nothing is overwritten *)

\* C10: with {n} in the pattern, every target of the plan is free at plan
\* time and differs from every other target and from every source; when
\* nothing interferes between planning and execution, every operation
\* succeeds and the folder holds as many regular files as before.
C10_NothingOverwritten ==
  ((pc = "preview" \/ (Executed /\ Undisturbed)) /\ HasToken(pattern)) =>
    /\ \A k \in Operations :
         /\ Target(k) \notin DOMAIN plan_fs
         /\ Target(k) \notin Sources
    /\ TargetsDistinct
    /\ (Executed /\ Undisturbed) =>
         /\ \A k \in Operations :
              rename_operations[k].status = "success"
         /\ Cardinality(RegularFiles(fs)) = Cardinality(RegularFiles(plan_fs))
         /\ RegularFiles(fs) = Targets

\* a folder that held p1.png, p1_1.png and a directory p2.png was renamed
\* without losing a file
C10_Witness ==
  /\ Executed
  /\ Undisturbed
  /\ HasToken(pattern)
  /\ Join(folder_path, <<"p","1",".","p","n","g">>) \in RegularFiles(plan_fs)
  /\ Join(folder_path, <<"p","1","_","1",".","p","n","g">>) \in RegularFiles(plan_fs)
  /\ Join(folder_path, <<"p","2",".","p","n","g">>) \in DOMAIN plan_fs
  /\ Tally("success") = 2

-----------------------------------------------------------------------------
(* C9: which listing the plan is built from *)

\* C9 as stated: the sources of the plan are exactly the files of the listing
\* of the discovery step, whatever happens to the folder before the planning.
C9_PlanFromDiscoveryListing ==
  pc = "preview" => Sources = Range(files)

\* C9 amended: the folder is listed again at the planning step, and the
\* sources of the plan are exactly the regular files of that second listing,
\* that is, of the folder as it is when the plan is made.
C9_PlanFromPlanningListing ==
  pc = "preview" =>
    /\ Sources = {p \in Range(all_items) : plan_fs[p] = "file"}
    /\ Range(all_items) = DOMAIN plan_fs
    /\ Len(rename_operations) = Cardinality(RegularFiles(plan_fs))

\* a file was added or removed between the two listings, and the plan
\* follows the second one
C9_Witness ==
  /\ pc = "preview"
  /\ Range(files) # RegularFiles(plan_fs)
  /\ Sources = RegularFiles(plan_fs)
  /\ Len(rename_operations) >= 1

-----------------------------------------------------------------------------
(* C1: a pattern without {n} *)

\* C1: with a pattern without {n} too, the targets of the plan are pairwise
\* distinct, whatever the folder holds.
C1_TargetsPairwiseDistinct == (Planned /\ ~HasToken(pattern)) => TargetsDistinct

-----------------------------------------------------------------------------
(* C2: the pipeline run a second time *)

\* C2: in a run that follows a run with the same pattern, every operation has
\* its source as its target, and the result reports every file as skipped
\* and none as renamed.
C2_SecondRunSkipsAll ==
  (runs_left < MaxReruns /\ HasToken(pattern) /\ Planned) =>
    /\ \A k \in Operations : Source(k) = Target(k)
    /\ Executed =>
         /\ result[1].skipped = result[1].total_files
         /\ result[1].successful = 0

=============================================================================
